---- MODULE Spec2Model ----
(***************************************************************************)
(* terminal_bitraster (src/bitraster.c): a file, or stdin, shown as a      *)
(* bitmap of sextant glyphs, with a Game of Life mode on the shown bits.   *)
(*                                                                         *)
(* Four specifications share the definitions below:                       *)
(*   SpecBits    getbit / setbit / step_life as functions of a buffer      *)
(*   Spec        run(): the control loop of file mode                      *)
(*   SpecRender  update() and setbit on a 24-byte file, 80x24 terminal     *)
(*   SpecMain    main(): argument parsing, then stream() or run()          *)
(***************************************************************************)
EXTENDS Integers, Sequences, FiniteSets

VARIABLES
  reverse_byte,   \* static int reverse_byte
  fd,             \* static int fd (-1: none, 3: the opened file)
  offset,         \* static off_t offset
  fd_size,        \* static off_t fd_size
  buffer,         \* the bytes buffer points to (a sequence of buffer_size bytes)
  buffer_size,    \* static size_t buffer_size
  buffer_offset,  \* static off_t buffer_offset
  buffer_width,   \* static size_t buffer_width
  last_term_w,    \* static int last_term_w
  last_term_h,    \* static int last_term_h
  col_offset,     \* static int col_offset
  life,           \* static int life
  life_buffer,    \* capacity of the block life_buffer points to, -1 when it is 0
  file,           \* the bytes of the file behind fd
  ws_col,         \* what TIOCGWINSZ answers now
  ws_row,
  term_w,         \* update()'s locals term_w, term_h at its last call
  term_h,
  screen,         \* the glyphs of the last full redraw, row by row
  tty,            \* stdin: [nonblock, raw]
  pc,             \* where the process is
  exit_code,      \* the process's exit status, -1 while it runs
  cause,          \* why it ended
  argv,           \* main's arguments still to be read
  oob,            \* the last step touched a byte at or past a block's capacity
  hist            \* what the last operation was and the state it started from

globals == <<reverse_byte, fd, offset, fd_size, buffer, buffer_size, buffer_offset,
             buffer_width, last_term_w, last_term_h, col_offset, life, life_buffer>>
env     == <<file, ws_col, ws_row>>
ctl     == <<pc, exit_code, cause, argv, tty>>
vars    == <<globals, env, ctl, term_w, term_h, screen, oob, hist>>

(***************************************************************************)
(* Bounds of the model.                                                    *)
(***************************************************************************)
\* size_t and off_t are modelled as words of WordBits bits; every value of the
\* model is far below 2^(WordBits-1), so a wrap happens exactly where it does
\* in 64 bits.
WordBits == 20
\* SpecBits: buffers of up to MaxBuf bytes, up to MaxSets calls of setbit and
\* MaxSteps calls of step_life on each
MaxBuf == 3
MaxSets == 1
MaxSteps == 2

Mod == 2 ^ WordBits
\* conversion of a signed value to size_t
U(v) == v % Mod
\* conversion of a size_t value to a signed type (off_t, int)
S(v) == IF v % Mod >= Mod \div 2 THEN (v % Mod) - Mod ELSE v % Mod

Bit(b, k) == (b \div (2 ^ k)) % 2
\* b | (1 << k) on a uint8_t
OrBit(b, k) == IF Bit(b, k) = 1 THEN b ELSE b + 2 ^ k
Zeros(n) == [i \in 1..n |-> 0]
Min(a, b) == IF a < b THEN a ELSE b
Max(a, b) == IF a > b THEN a ELSE b

(***************************************************************************)
(* BitBuffer: getbit and setbit.  rb, bw, bs stand for the globals         *)
(* reverse_byte, buffer_width, buffer_size the functions read.             *)
(***************************************************************************)
\* getbit with the x guard off by one, as setbit has it
getbit_offbyone(rb, bw, bs, buf, x, y) ==
  IF x < 0 \/ U(x) > bw \/ y < 0 THEN 0
  ELSE LET bit_index == U(y * bw + x)
           byte_index == bit_index \div 8
       IN IF byte_index >= bs THEN 0
          ELSE LET byte_shift == IF rb # 0 THEN bit_index % 8 ELSE 7 - (bit_index % 8)
               IN Bit(buf[byte_index + 1], byte_shift)

\* getbit reading the bit orders the other way round
getbit_swapped(rb, bw, bs, buf, x, y) ==
  IF x < 0 \/ U(x) >= bw \/ y < 0 THEN 0
  ELSE LET bit_index == U(y * bw + x)
           byte_index == bit_index \div 8
       IN IF byte_index >= bs THEN 0
          ELSE LET byte_shift == IF rb # 0 THEN 7 - (bit_index % 8) ELSE bit_index % 8
               IN Bit(buf[byte_index + 1], byte_shift)

getbit_g(rb, bw, bs, buf, x, y) ==
  IF x < 0 \/ U(x) >= bw \/ y < 0 THEN 0
  ELSE LET bit_index == U(y * bw + x)
           byte_index == bit_index \div 8
       IN IF byte_index >= bs THEN 0
          ELSE LET byte_shift == IF rb # 0 THEN bit_index % 8 ELSE 7 - (bit_index % 8)
               IN Bit(buf[byte_index + 1], byte_shift)

getbit(buf, x, y) == getbit_g(reverse_byte, buffer_width, buffer_size, buf, x, y)

\* setbit setting the bit next to the one it should
setbit_shifted(rb, bw, bs, buf, x, y) ==
  IF x < 0 \/ U(x) > bw \/ y < 0 THEN [buf |-> buf, oob |-> FALSE]
  ELSE LET bit_index == U(y * bw + x)
           byte_index == bit_index \div 8
       IN IF byte_index > bs THEN [buf |-> buf, oob |-> FALSE]
          ELSE LET byte_shift == IF rb # 0 THEN (bit_index + 1) % 8 ELSE 7 - ((bit_index + 1) % 8)
               IN IF byte_index >= Len(buf) THEN [buf |-> buf, oob |-> TRUE]
                  ELSE [buf |-> [buf EXCEPT ![byte_index + 1] = OrBit(@, byte_shift)],
                        oob |-> FALSE]

\* The result of setbit on a block of Len(buf) bytes: the block's new bytes, and
\* whether the byte written lies at or past the block's end.
setbit_g(rb, bw, bs, buf, x, y) ==
  IF x < 0 \/ U(x) > bw \/ y < 0 THEN [buf |-> buf, oob |-> FALSE]
  ELSE LET bit_index == U(y * bw + x)
           byte_index == bit_index \div 8
       IN IF byte_index > bs THEN [buf |-> buf, oob |-> FALSE]
          ELSE LET byte_shift == IF rb # 0 THEN bit_index % 8 ELSE 7 - (bit_index % 8)
               IN IF byte_index >= Len(buf) THEN [buf |-> buf, oob |-> TRUE]
                  ELSE [buf |-> [buf EXCEPT ![byte_index + 1] = OrBit(@, byte_shift)],
                        oob |-> FALSE]

setbit(buf, x, y) == setbit_g(reverse_byte, buffer_width, buffer_size, buf, x, y)

(***************************************************************************)
(* Automaton: step_life on the globals buffer, buffer_size, buffer_width.  *)
(***************************************************************************)
\* the eight getbit calls of the inner loop
count(buf, x, y) ==
  getbit(buf, x - 1, y - 1) + getbit(buf, x, y - 1) + getbit(buf, x + 1, y - 1)
  + getbit(buf, x - 1, y) + getbit(buf, x + 1, y)
  + getbit(buf, x - 1, y + 1) + getbit(buf, x, y + 1) + getbit(buf, x + 1, y + 1)

\* whether the loop body calls setbit(life_buffer, x, y)
born(buf, x, y) ==
  IF getbit(buf, x, y) = 1 THEN count(buf, x, y) \in {2, 3} ELSE count(buf, x, y) = 3

\* the inner loop: row y of scratch block lb from column x onwards
RECURSIVE life_row(_, _, _, _)
life_row(buf, lb, x, y) ==
  IF x >= buffer_width THEN lb
  ELSE life_row(buf, IF born(buf, x, y) THEN setbit(lb, x, y).buf ELSE lb, x + 1, y)

\* the outer loop: rows y to h - 1 of scratch block lb
RECURSIVE life_loop(_, _, _, _)
life_loop(buf, lb, y, h) ==
  IF y >= h THEN lb
  ELSE life_loop(buf, life_row(buf, lb, 0, y), y + 1, h)

\* step_life(): the new contents of buffer, the capacity of life_buffer, whether
\* memset/setbit/memcpy ran past life_buffer's capacity (oob), and whether the
\* call had undefined behaviour: the division by buffer_width = 0, or the
\* overflow of life_buffer.  The buffer given is the one of a build in which
\* the division yields 0 and the bytes past the block behave as part of it.
step_life ==
  LET cap == IF life_buffer = -1 THEN buffer_size ELSE life_buffer
      h == IF buffer_width = 0 THEN 0 ELSE (buffer_size * 8) \div buffer_width
  IN [undefined |-> buffer_width = 0 \/ cap < buffer_size,
      buffer |-> life_loop(buffer, Zeros(buffer_size), 0, h),
      oob |-> cap < buffer_size,
      life_buffer |-> cap]


(***************************************************************************)
(* SpecBits: setbit and step_life applied to buffers of every shape.       *)
(***************************************************************************)
\* the buffer widths SpecBits tries (bits per row, multiples of 8)
BitsWidths == {8, 16}
\* number of set bits of a block
Live(buf) == Cardinality({c \in (1..Len(buf)) \X (0..7) : Bit(buf[c[1]], c[2]) = 1})
\* the coordinates read: from one left of / above the buffer to past its end
Xs == -1..(buffer_width + 1)
Ys == -1..(MaxBuf + 1)
\* the coordinates setbit is called with: those at the edges of a byte, of a
\* row and of the buffer, and one step past each
SetXs == {-1, 0, 3, 7, buffer_width - 1, buffer_width, buffer_width + 1}
SetYs == -1..((buffer_size * 8 + buffer_width - 1) \div buffer_width + 1)
\* the bytes an initial buffer is filled with
Fills == {0, 255, 165}

\* the values of the variables a specification does not use
NoFile == fd = -1 /\ offset = 0 /\ fd_size = 0 /\ file = <<>> /\ buffer_offset = -1
NoTerm == /\ last_term_w = 0 /\ last_term_h = 0 /\ col_offset = 0
          /\ ws_col = 0 /\ ws_row = 0 /\ term_w = 0 /\ term_h = 0 /\ screen = <<>>
          /\ tty = [nonblock |-> FALSE, raw |-> FALSE]
NoHist == [op |-> "none", x |-> 0, y |-> 0, buffer |-> <<>>, n |-> 0, steps |-> 0]

InitBits ==
  /\ reverse_byte \in {0, 1}
  /\ buffer_width \in BitsWidths
  /\ buffer_size \in 0..MaxBuf
  /\ \E fill \in Fills : buffer = [i \in 1..buffer_size |-> fill]
  /\ life = 0 /\ life_buffer = -1
  /\ NoFile /\ NoTerm
  /\ pc = "bits" /\ exit_code = -1 /\ cause = "" /\ argv = <<>>
  /\ oob = FALSE
  /\ hist = NoHist

\* setbit(buffer, x, y) for any x, y
SetBit ==
  /\ pc = "bits"
  /\ hist.n < MaxSets
  /\ \E x \in SetXs, y \in SetYs :
       LET r == setbit(buffer, x, y)
       IN /\ buffer' = r.buf
          /\ oob' = r.oob
          /\ hist' = [op |-> "setbit", x |-> x, y |-> y, buffer |-> buffer,
                      n |-> hist.n + 1, steps |-> hist.steps]
  /\ UNCHANGED <<reverse_byte, fd, offset, fd_size, buffer_size, buffer_offset,
                 buffer_width, last_term_w, last_term_h, col_offset, life, life_buffer>>
  /\ UNCHANGED <<env, ctl, term_w, term_h, screen>>

\* step_life() on the buffer, life_buffer not yet allocated
StepLife ==
  /\ pc = "bits"
  /\ hist.steps < MaxSteps
  /\ LET r == step_life
     IN /\ buffer' = r.buffer
        /\ oob' = r.oob
        /\ life_buffer' = -1
        /\ hist' = [op |-> "step_life", x |-> 0, y |-> 0, buffer |-> buffer,
                   n |-> hist.n, steps |-> hist.steps + 1]
  /\ UNCHANGED <<reverse_byte, fd, offset, fd_size, buffer_size, buffer_offset,
                 buffer_width, last_term_w, last_term_h, col_offset, life>>
  /\ UNCHANGED <<env, ctl, term_w, term_h, screen>>

NextBits == SetBit \/ StepLife

SpecBits == InitBits /\ [][NextBits]_vars

\* (x, y) addresses a bit of the buffer
InRange(x, y) ==
  /\ 0 <= x /\ x < buffer_width /\ y >= 0
  /\ (y * buffer_width + x) \div 8 < buffer_size

\* C2: after setbit(buf, x, y) with (x, y) in range, getbit(buf, x, y) = 1 and
\* getbit of every other in-range coordinate is what it was, in either bit order.
C2_RoundTrip ==
  (hist.op = "setbit" /\ InRange(hist.x, hist.y)) =>
    /\ getbit(buffer, hist.x, hist.y) = 1
    /\ \A x \in Xs, y \in Ys :
         (InRange(x, y) /\ <<x, y>> # <<hist.x, hist.y>>) =>
           getbit(buffer, x, y) = getbit(hist.buffer, x, y)

\* a clear bit of a buffer holding other set bits has been set
C2_Witness ==
  /\ hist.op = "setbit" /\ InRange(hist.x, hist.y)
  /\ getbit(hist.buffer, hist.x, hist.y) = 0
  /\ Live(hist.buffer) > 0
  /\ Live(buffer) = Live(hist.buffer) + 1

\* C3: getbit returns 0 for every coordinate out of range (x < 0, x >=
\* buffer_width, y < 0, byte index >= buffer_size), whatever the bit order and
\* the contents.
C3_GetBitOutOfRange ==
  \A x \in Xs, y \in Ys : ~InRange(x, y) => getbit(buffer, x, y) = 0

\* the bit that x = buffer_width of row 0 would alias is set, and so is the
\* last bit of the buffer
C3_Witness ==
  /\ hist.op = "setbit"
  /\ InRange(0, 1) /\ getbit(buffer, 0, 1) = 1
  /\ \E x \in Xs, y \in Ys : InRange(x, y) /\ ~InRange(x, y + 1) /\ getbit(buffer, x, y) = 1

\* C4: setbit with (x, y) out of range changes no byte of the buffer and writes
\* no byte at or past its capacity.
C4_SetBitNoOp ==
  (hist.op = "setbit" /\ ~InRange(hist.x, hist.y)) =>
    (buffer = hist.buffer /\ ~oob)

ReverseBits(b) ==
  Bit(b, 0) * 128 + Bit(b, 1) * 64 + Bit(b, 2) * 32 + Bit(b, 3) * 16
  + Bit(b, 4) * 8 + Bit(b, 5) * 4 + Bit(b, 6) * 2 + Bit(b, 7)

\* C5: the bit read at a linear index from a byte b MSB-first is the bit read at
\* that index LSB-first from the bit-reversal of b; and setbit sets the bit
\* getbit reads: bit 7 - i%8 of the byte MSB-first, bit i%8 LSB-first.
C5_BitOrder ==
  /\ \A x \in Xs, y \in Ys :
       InRange(x, y) =>
         getbit_g(0, buffer_width, buffer_size, buffer, x, y)
           = getbit_g(1, buffer_width, buffer_size,
                      [i \in 1..buffer_size |-> ReverseBits(buffer[i])], x, y)
  /\ (hist.op = "setbit" /\ InRange(hist.x, hist.y)) =>
       LET i == hist.y * buffer_width + hist.x
           k == IF reverse_byte # 0 THEN i % 8 ELSE 7 - (i % 8)
       IN /\ Bit(buffer[i \div 8 + 1], k) = 1
          /\ buffer[i \div 8 + 1] = OrBit(hist.buffer[i \div 8 + 1], k)
          /\ getbit(buffer, hist.x, hist.y) = 1
          /\ getbit_g(1 - reverse_byte, buffer_width, buffer_size, buffer,
                      hist.x + 7 - 2 * (hist.x % 8), hist.y) = 1

\* the first bit of a row of an empty buffer has been set LSB-first: its byte
\* is 1
C5_Witness ==
  /\ hist.op = "setbit" /\ hist.x = 0 /\ InRange(hist.x, hist.y)
  /\ reverse_byte = 1
  /\ Live(hist.buffer) = 0
  /\ \E i \in 1..buffer_size : buffer[i] = 1

\* number of rows step_life iterates over
GridH == IF buffer_width = 0 THEN 0 ELSE (buffer_size * 8) \div buffer_width
\* the cell (x, y) of the grid [0, buffer_width) x [0, GridH), dead outside it
Cell(buf, x, y) ==
  IF 0 <= x /\ x < buffer_width /\ 0 <= y /\ y < GridH THEN getbit(buf, x, y) ELSE 0
Neighbours(buf, x, y) ==
  Cell(buf, x - 1, y - 1) + Cell(buf, x, y - 1) + Cell(buf, x + 1, y - 1)
  + Cell(buf, x - 1, y) + Cell(buf, x + 1, y)
  + Cell(buf, x - 1, y + 1) + Cell(buf, x, y + 1) + Cell(buf, x + 1, y + 1)
Conway(buf, x, y) ==
  IF Cell(buf, x, y) = 1 THEN Neighbours(buf, x, y) \in {2, 3}
  ELSE Neighbours(buf, x, y) = 3

\* C6: one step_life is one generation of Conway's Life on the grid
\* [0, buffer_width) x [0, GridH), every coordinate outside the grid dead, for
\* every buffer content and size.
C6_Conway ==
  hist.op = "step_life" =>
    \A x \in 0..(buffer_width - 1), y \in 0..(GridH - 1) :
      (getbit(buffer, x, y) = 1) <=> Conway(hist.buffer, x, y)

\* C6 on the buffers that are a whole number of rows
C6_ConwayWholeRows ==
  (hist.op = "step_life" /\ (buffer_size * 8) % buffer_width = 0) =>
    \A x \in 0..(buffer_width - 1), y \in 0..(GridH - 1) :
      (getbit(buffer, x, y) = 1) <=> Conway(hist.buffer, x, y)


(***************************************************************************)
(* Glyph table and update(): the viewport's refresh and the full redraw.   *)
(***************************************************************************)
\* sextant_chars with entry 1 mistyped as 0x1FB00, the glyph of entry 32
sextant_chars_typo ==
  << 32, 129792, 129807, 129837, 129799, 129830, 129814, 129845,
     129795, 129826, 129811, 129841, 129803, 129833, 129818, 129849,
     129793, 129824, 129809, 129839, 129801, 9616, 129816, 129847,
     129797, 129828, 129812, 129843, 129805, 129835, 129820, 129851,
     129792, 129823, 129808, 129838, 129800, 129831, 129815, 129846,
     129796, 129827, 9612, 129842, 129804, 129834, 129819, 129850,
     129794, 129825, 129810, 129840, 129802, 129832, 129817, 129848,
     129798, 129829, 129813, 129844, 129806, 129836, 129821, 9608 >>

\* sextant_chars with the two half blocks, entries 21 and 42, exchanged
sextant_chars_halves ==
  [sextant_chars_typo EXCEPT ![1 + 1] = 129822, ![21 + 1] = 9612, ![42 + 1] = 9616]

\* sextant_chars[64], entry i at position i+1
\* (0x20 = 32, 0x2590 = 9616, 0x258C = 9612, 0x2588 = 9608, 0x1FB00 = 129792)
sextant_chars ==
  << 32, 129822, 129807, 129837, 129799, 129830, 129814, 129845,
     129795, 129826, 129811, 129841, 129803, 129833, 129818, 129849,
     129793, 129824, 129809, 129839, 129801, 9616, 129816, 129847,
     129797, 129828, 129812, 129843, 129805, 129835, 129820, 129851,
     129792, 129823, 129808, 129838, 129800, 129831, 129815, 129846,
     129796, 129827, 9612, 129842, 129804, 129834, 129819, 129850,
     129794, 129825, 129810, 129840, 129802, 129832, 129817, 129848,
     129798, 129829, 129813, 129844, 129806, 129836, 129821, 9608 >>

\* glyph_index shifting the bits in from the other end
glyph_index_lsb(rb, bw, bs, buf, off_x, char_y) ==
  getbit_g(rb, bw, bs, buf, off_x, char_y * 3)
  + 2 * getbit_g(rb, bw, bs, buf, off_x + 1, char_y * 3)
  + 4 * getbit_g(rb, bw, bs, buf, off_x, char_y * 3 + 1)
  + 8 * getbit_g(rb, bw, bs, buf, off_x + 1, char_y * 3 + 1)
  + 16 * getbit_g(rb, bw, bs, buf, off_x, char_y * 3 + 2)
  + 32 * getbit_g(rb, bw, bs, buf, off_x + 1, char_y * 3 + 2)

\* the 6-bit index update() builds for the character cell whose top-left bit is
\* (off_x, 3*char_y)
glyph_index(rb, bw, bs, buf, off_x, char_y) ==
  32 * getbit_g(rb, bw, bs, buf, off_x, char_y * 3)
  + 16 * getbit_g(rb, bw, bs, buf, off_x + 1, char_y * 3)
  + 8 * getbit_g(rb, bw, bs, buf, off_x, char_y * 3 + 1)
  + 4 * getbit_g(rb, bw, bs, buf, off_x + 1, char_y * 3 + 1)
  + 2 * getbit_g(rb, bw, bs, buf, off_x, char_y * 3 + 2)
  + getbit_g(rb, bw, bs, buf, off_x + 1, char_y * 3 + 2)

\* the redraw loop of update(): rows char_y < th, columns char_x < disp_w
redraw(rb, bw, bs, buf, col, tw, th) ==
  LET disp_w == Min(S(bw \div 2), tw)
  IN [cy \in 1..th |->
       [cx \in 1..disp_w |->
         sextant_chars[glyph_index(rb, bw, bs, buf, col + (cx - 1) * 2, cy - 1) + 1]]]

\* what the environment can make of one call of update()
IoOutcomes == {"ok", "winsz", "alloc", "seek", "read"}

\* the globals update() and the loop of run() change
G == [offset |-> offset, col_offset |-> col_offset, buffer |-> buffer,
      buffer_size |-> buffer_size, buffer_offset |-> buffer_offset,
      buffer_width |-> buffer_width, last_term_w |-> last_term_w,
      last_term_h |-> last_term_h]

\* needs_fetch with term_h compared to last_term_w
needs_fetch_typo(g, tw, th) ==
  \/ th # g.last_term_w
  \/ tw # g.last_term_w
  \/ g.buffer_offset # g.offset

\* the condition under which update() recomputes the window and reads the file
needs_fetch(g, tw, th) ==
  \/ th # g.last_term_h
  \/ tw # g.last_term_w
  \/ g.buffer_offset # g.offset

\* buffer_width, twice the terminal's width if it was left unset, rounded down
\* to a multiple of 8
derive_width(bw, tw) ==
  LET bw1 == IF bw = 0 THEN U(tw * 2) ELSE bw
  IN IF bw1 % 8 # 0 THEN bw1 - (bw1 % 8) ELSE bw1

\* window_size with two rows of bits to the row of characters
window_size_rows2(bw, th) ==
  LET nbs0 == U((th * 2) * bw)
      nbs1 == IF nbs0 % 8 # 0 THEN nbs0 \div 8 + 1 ELSE nbs0 \div 8
  IN IF nbs1 > U(fd_size) THEN U(fd_size) ELSE nbs1

\* new_buffer_size: the bytes of th*3 rows of bw bits, at most fd_size
window_size(bw, th) ==
  LET nbs0 == U((th * 3) * bw)
      nbs1 == IF nbs0 % 8 # 0 THEN nbs0 \div 8 + 1 ELSE nbs0 \div 8
  IN IF nbs1 > U(fd_size) THEN U(fd_size) ELSE nbs1

\* the clamp of offset before the seek
clamp_offset(off, bs) ==
  LET off1 == IF U(off + bs) > U(fd_size) THEN S(U(fd_size - bs)) ELSE off
  IN IF off1 < 0 THEN 0 ELSE off1

\* the clamp of col_offset before the redraw
clamp_col(col, bw, tw) ==
  LET col1 == IF U(col + tw * 2) > bw THEN S(U(bw - tw * 2)) ELSE col
  IN IF col1 < 0 THEN 0 ELSE col1

\* update(), called with globals g when the terminal is tw x th and the system
\* calls go as io says.  ok: it returned (otherwise ERROR ended the process for
\* cause); fetched: it seeked and read the file; g: the globals after it;
\* screen: what it drew.
update(g, tw, th, io) ==
  IF io = "winsz"
  THEN [ok |-> FALSE, cause |-> "io", fetched |-> FALSE, g |-> g, screen |-> <<>>]
  ELSE
  LET refetch == needs_fetch(g, tw, th)
      bw == IF refetch THEN derive_width(g.buffer_width, tw) ELSE g.buffer_width
      new_buffer_size == window_size(bw, th)
      realloc == refetch /\ new_buffer_size # g.buffer_size
      bs == IF refetch THEN new_buffer_size ELSE g.buffer_size
      off == IF refetch THEN clamp_offset(g.offset, bs) ELSE g.offset
      \* what read(fd, buffer, buffer_size) returns after lseek(fd, offset, SEEK_SET)
      got == Max(0, Min(bs, Len(file) - off))
      col == clamp_col(g.col_offset, bw, tw)
  IN IF realloc /\ io = "alloc"
     THEN [ok |-> FALSE, cause |-> "alloc", fetched |-> FALSE, g |-> g, screen |-> <<>>]
     ELSE IF refetch /\ (io \in {"seek", "read"} \/ got # bs)
     THEN [ok |-> FALSE, cause |-> "io", fetched |-> io # "seek",
           g |-> [g EXCEPT !.buffer_width = bw, !.buffer_size = bs, !.offset = off],
           screen |-> <<>>]
     ELSE LET buf == IF refetch THEN [i \in 1..bs |-> file[off + i]] ELSE g.buffer
          IN [ok |-> TRUE, cause |-> "", fetched |-> refetch,
              g |-> [g EXCEPT !.buffer_width = bw, !.buffer_size = bs, !.buffer = buf,
                              !.offset = off,
                              !.last_term_h = th, !.last_term_w = tw,
                              !.buffer_offset = IF refetch THEN off ELSE @,
                              !.col_offset = col],
              screen |-> redraw(reverse_byte, bw, bs, buf, col, tw, th)]

(***************************************************************************)
(* Terminal mode: term_setup and term_reset.  f names the system call that *)
(* fails (0: none; 1: fcntl F_GETFL, 2: fcntl F_SETFL, 3: tcgetattr,       *)
(* 4: tcsetattr); a failure is TERM_ERROR: the process exits with -1.      *)
(***************************************************************************)
Failures == 0..4

term_setup(t, f) ==
  IF f \in {1, 2} THEN [ok |-> FALSE, tty |-> t]
  ELSE IF f \in {3, 4} THEN [ok |-> FALSE, tty |-> [t EXCEPT !.nonblock = TRUE]]
  ELSE [ok |-> TRUE, tty |-> [nonblock |-> TRUE, raw |-> TRUE]]

term_reset(t, f) ==
  IF f \in {1, 2} THEN [ok |-> FALSE, tty |-> t]
  ELSE IF f \in {3, 4} THEN [ok |-> FALSE, tty |-> [t EXCEPT !.nonblock = FALSE]]
  ELSE [ok |-> TRUE, tty |-> [nonblock |-> FALSE, raw |-> FALSE]]

\* exit(-1) as the parent sees it
EXIT_FAILURE == 255
\* the status of a process killed by SIGFPE or SIGSEGV
KILLED == 139

(***************************************************************************)
(* run(): the control loop of file mode.                                   *)
(***************************************************************************)
ESC == 27
\* what read(STDIN_FILENO, input, 8) can deliver: the bound keys in both
\* cases, an unbound key, the escape sequences of the arrows, Home, End, Page
\* Up and Page Down, sequences that match no pattern, an empty read and a
\* two-byte read
Keys1 == {<<ESC>>, <<113>>, <<81>>, <<105>>, <<104>>, <<106>>, <<107>>, <<75>>,
          <<108>>, <<114>>, <<82>>, <<120>>}
Keys3 == {<<ESC, 91, c>> : c \in {65, 66, 67, 68, 70, 72, 90}}
           \cup {<<ESC, 79, 65>>, <<ESC, 79, 70>>, <<ESC, 80, 65>>, <<26, 91, 66>>}
Keys4 == {<<ESC, 91, 53, 126>>, <<ESC, 91, 54, 126>>, <<ESC, 91, 55, 126>>,
          <<ESC, 79, 53, 126>>, <<ESC, 91, 54, 125>>}
Inputs == Keys1 \cup Keys3 \cup Keys4 \cup {<<>>, <<120, 120>>}

\* The body of the loop from the read to the update for an input of inputlen >= 0
\* bytes: what it does next (break, continue, or fall through to the update)
\* and the globals it leaves.
key_effect(input, g, lf) ==
  LET inputlen == Len(input)
      row == g.buffer_width \div 8
      up == [ctl |-> "update", life |-> lf, g |-> [g EXCEPT !.offset = S(U(g.offset - row))]]
      down == [ctl |-> "update", life |-> lf, g |-> [g EXCEPT !.offset = S(U(g.offset + row))]]
      left == [ctl |-> "update", life |-> lf, g |-> [g EXCEPT !.col_offset = g.col_offset - 1]]
      right == [ctl |-> "update", life |-> lf, g |-> [g EXCEPT !.col_offset = g.col_offset + 1]]
      none == [ctl |-> "update", life |-> lf, g |-> g]
  IN IF inputlen = 1
     THEN CASE input[1] = ESC -> [ctl |-> "break", life |-> lf, g |-> g]
            [] input[1] \in {113, 81} -> [ctl |-> "break", life |-> lf, g |-> g]
            [] input[1] \in {105, 73} -> [ctl |-> "continue", life |-> lf, g |-> g]
            [] input[1] \in {104, 72} -> left
            [] input[1] \in {106, 74} -> down
            [] input[1] \in {107, 75} -> up
            [] input[1] \in {108, 76} -> right
            [] input[1] \in {114, 82} -> [ctl |-> "continue", life |-> 1, g |-> g]
            [] OTHER -> none
     ELSE IF inputlen = 3
     THEN IF input[1] = ESC /\ input[2] \in {91, 79}
          THEN CASE input[3] = 65 -> up
                 [] input[3] = 66 -> down
                 [] input[3] = 67 -> right
                 [] input[3] = 68 -> left
                 [] input[3] = 70 -> [ctl |-> "update", life |-> lf, g |-> [g EXCEPT !.offset = fd_size]]
                 [] input[3] = 72 -> [ctl |-> "update", life |-> lf, g |-> [g EXCEPT !.offset = 0]]
                 [] OTHER -> none
          ELSE none
     ELSE IF inputlen = 4
     THEN IF input[1] = ESC /\ input[2] = 91 /\ input[4] = 126
          THEN CASE input[3] = 53 ->
                      [ctl |-> "update", life |-> lf,
                       g |-> [g EXCEPT !.offset = S(U(g.offset - g.buffer_size))]]
                 [] input[3] = 54 ->
                      [ctl |-> "update", life |-> lf,
                       g |-> [g EXCEPT !.offset = S(U(g.offset + g.buffer_size))]]
                 [] OTHER -> none
          ELSE none
     ELSE none


\* whether the input is one of the keys run() moves the viewport on: h j k l
\* in either case, the arrows, Home, End, Page Up, Page Down
is_navigation(input) ==
  \/ Len(input) = 1 /\ input[1] \in {104, 72, 106, 74, 107, 75, 108, 76}
  \/ /\ Len(input) = 3 /\ input[1] = ESC /\ input[2] \in {91, 79}
     /\ input[3] \in {65, 66, 67, 68, 70, 72}
  \/ /\ Len(input) = 4 /\ input[1] = ESC /\ input[2] = 91 /\ input[4] = 126
     /\ input[3] \in {53, 54}

\* Bounds of Spec: files of up to MaxFile bytes
MaxFile == 5
\* What main() leaves to run(): the bit order (-r), the width (-w; 0: left
\* unset), the size of the file and the offset (-o).  A width taken from the
\* terminal and an offset past the end of the file; rows of one byte and an
\* offset inside the file; rows of two bytes, the file ending in half a row;
\* an empty file.
Configs ==
  {[rb |-> 1, bw |-> 0, size |-> MaxFile, off |-> MaxFile + 3],
   [rb |-> 0, bw |-> 8, size |-> MaxFile, off |-> 2],
   [rb |-> 0, bw |-> 16, size |-> MaxFile, off |-> 0],
   [rb |-> 0, bw |-> 8, size |-> 0, off |-> 0]}
\* the terminal sizes (columns, rows) TIOCGWINSZ answers: too narrow for a width
\* of 8; enough for 8, and half of a width of 16; the same with two rows;
\* enough for 16
TermSizes == {<<3, 1>>, <<5, 1>>, <<5, 2>>, <<9, 1>>}
\* byte i of the file: three bits in a row in every third byte
FileByte(i) == IF i % 3 = 2 THEN 56 ELSE 0

SetG(g) ==
  /\ offset' = g.offset /\ col_offset' = g.col_offset
  /\ buffer' = g.buffer /\ buffer_size' = g.buffer_size
  /\ buffer_offset' = g.buffer_offset /\ buffer_width' = g.buffer_width
  /\ last_term_w' = g.last_term_w /\ last_term_h' = g.last_term_h

Cooked == [nonblock |-> FALSE, raw |-> FALSE]
\* hist before the first update()
NoFetch == [op |-> "none", fetched |-> FALSE, same |-> FALSE,
            changed |-> FALSE, disarmed |-> FALSE, fetch_off |-> -1,
            setup |-> FALSE, reset |-> FALSE, key |-> "none", armed |-> FALSE,
            life |-> 0, steps |-> 0]
\* the globals of a process that has not run update() yet, or is gone
NoG == [offset |-> 0, col_offset |-> 0, buffer |-> <<>>, buffer_size |-> 0,
        buffer_offset |-> -1, buffer_width |-> 0, last_term_w |-> 0, last_term_h |-> 0]

\* The process ends in step op with status code for reason why, stdin left as
\* t and the terminal showing scr; its memory is gone.  setup: term_setup() had
\* changed a setting of stdin; reset: term_reset() was called before the end.
Exit(op, code, why, t, scr, setup, reset) ==
  /\ pc' = "exited" /\ exit_code' = code /\ cause' = why /\ tty' = t
  /\ screen' = scr
  /\ SetG(NoG) /\ life' = 0 /\ life_buffer' = -1
  /\ term_w' = 0 /\ term_h' = 0
  /\ hist' = [NoFetch EXCEPT !.op = op, !.setup = setup, !.reset = reset]

\* update() called at the end of a step of run() with globals g, the system
\* calls succeeding, and what the step leaves: life lf, life_buffer lb, oob oo.
\* hist describes this call of update(): whether it fetched, whether the
\* terminal size and the offset were the same as at the previous call, whether
\* the size differed from the last recorded one or the offset from that of the
\* last fetch, whether the automaton was disarmed since the last fetch (in this
\* turn of the loop or an earlier one), and the offset of the last fetch (-1:
\* none yet); key: the kind of input the call follows in its turn of the loop
\* ("nav": a navigation key, "unbound": input that matches no command, "none":
\* no input); armed: the automaton was armed when that input arrived; life: the
\* value of life at the call; steps: the calls of step_life() in the turn.
Refresh(g, lf, lb, oo, disarmed, key, steps) ==
  \E r \in {update(g, ws_col, ws_row, "ok")} :
     /\ r.ok
     /\ SetG(r.g)
     /\ life' = lf /\ life_buffer' = lb /\ oob' = oo
     /\ hist' = [op |-> "update", fetched |-> r.fetched,
                 same |-> /\ pc = "loop"
                          /\ ws_col = term_w /\ ws_row = term_h /\ g.offset = offset,
                 changed |-> \/ ws_col # g.last_term_w \/ ws_row # g.last_term_h
                             \/ g.offset # hist.fetch_off,
                 disarmed |-> disarmed \/ (hist.disarmed /\ ~hist.fetched),
                 fetch_off |-> IF r.fetched THEN r.g.offset ELSE hist.fetch_off,
                 setup |-> FALSE, reset |-> FALSE, key |-> key, armed |-> disarmed,
                 life |-> lf, steps |-> steps]
     /\ pc' = "loop" /\ UNCHANGED <<exit_code, cause>>
     /\ tty' = IF pc = "run" THEN term_setup(tty, 0).tty ELSE tty
     /\ screen' = r.screen /\ term_w' = ws_col /\ term_h' = ws_row

\* the cause ("io", "alloc") with which update(), called with globals g, can
\* end the process through ERROR
update_errors(g) ==
  {update(g, ws_col, ws_row, io).cause :
     io \in {o \in IoOutcomes \ {"ok"} : ~update(g, ws_col, ws_row, o).ok}}

\* run() up to the loop: sigaction, term_setup(), update()
RunStart ==
  /\ pc = "run"
  /\ \/ \E f \in Failures \ {0} :
          /\ Exit("start", EXIT_FAILURE, "tty", term_setup(tty, f).tty, screen,
                  term_setup(tty, f).tty # tty, FALSE)
          /\ UNCHANGED oob
     \/ Refresh(G, life, life_buffer, FALSE, FALSE, "none", 0)
     \/ \E why \in update_errors(G), f \in Failures :
          /\ Exit("start", EXIT_FAILURE, why,
                  term_reset(term_setup(tty, 0).tty, f).tty, <<>>, TRUE, TRUE)
          /\ UNCHANGED oob
  /\ UNCHANGED <<reverse_byte, fd, fd_size, env, argv>>

\* Tick with the redraw ahead of the generation: the frame shows the buffer
\* step_life() was called with
Tick_drawfirst ==
  /\ pc = "loop"
  /\ IF life # 0
     THEN \E sl \in {step_life} :
            \/ /\ sl.undefined
               /\ Exit("tick", KILLED, "crash", tty, screen, tty # Cooked, FALSE)
               /\ oob' = sl.oob
            \/ \E r \in {update([G EXCEPT !.buffer = sl.buffer], ws_col, ws_row, "ok")} :
                 /\ r.ok
                 /\ SetG(r.g)
                 /\ UNCHANGED life /\ life_buffer' = sl.life_buffer /\ oob' = sl.oob
                 /\ hist' = [hist EXCEPT !.op = "update", !.fetched = r.fetched,
                                         !.key = "none", !.armed = FALSE,
                                         !.life = life, !.steps = 1]
                 /\ UNCHANGED <<pc, exit_code, cause, tty>>
                 /\ screen' = update(G, ws_col, ws_row, "ok").screen
                 /\ term_w' = ws_col /\ term_h' = ws_row
     ELSE UNCHANGED <<offset, col_offset, buffer, buffer_size, buffer_offset,
                      buffer_width, last_term_w, last_term_h, life, life_buffer,
                      oob, screen, term_w, term_h, pc, exit_code, cause, tty, hist>>
  /\ UNCHANGED <<reverse_byte, fd, fd_size, env, argv>>

\* one turn of the loop in which read() fails with EAGAIN: a generation of the
\* automaton and a redraw if it is armed, a sleep otherwise
Tick ==
  /\ pc = "loop"
  /\ IF life # 0
     THEN \E sl \in {step_life} :
            \/ /\ sl.undefined
               /\ Exit("tick", KILLED, "crash", tty, screen, tty # Cooked, FALSE)
               /\ oob' = sl.oob
            \/ Refresh([G EXCEPT !.buffer = sl.buffer], life, sl.life_buffer,
                       sl.oob, FALSE, "none", 1)
     ELSE UNCHANGED <<offset, col_offset, buffer, buffer_size, buffer_offset,
                      buffer_width, last_term_w, last_term_h, life, life_buffer,
                      oob, screen, term_w, term_h, pc, exit_code, cause, tty, hist>>
  /\ UNCHANGED <<reverse_byte, fd, fd_size, env, argv>>

\* break out of the loop: term_reset() and the return to main(), which returns 0
Leave(op, why) ==
  \E f \in Failures :
    LET t == term_reset(tty, f)
    IN /\ IF t.ok THEN Exit(op, 0, why, t.tty, <<>>, tty # Cooked, TRUE)
          ELSE Exit(op, EXIT_FAILURE, "tty", t.tty, <<>>, tty # Cooked, TRUE)
       /\ oob' = FALSE

\* one turn of the loop in which read() fails with another error: break
InputError ==
  /\ pc = "loop"
  /\ Leave("input_error", "input")
  /\ UNCHANGED <<reverse_byte, fd, fd_size, env, argv>>

\* the globals update() is called with after input, the automaton disarmed
after_input(e) ==
  IF e.life # 0 THEN [e.g EXCEPT !.buffer_offset = -1] ELSE e.g

\* one turn of the loop in which read() delivers input and no system call of
\* update() fails
InputOf(input) ==
  LET e == key_effect(input, G, life)
  IN CASE e.ctl = "break" -> Leave("key", "quit")
       [] e.ctl = "continue" ->
            /\ life' = e.life /\ oob' = FALSE
            /\ UNCHANGED <<offset, col_offset, buffer, buffer_size, buffer_offset,
                           buffer_width, last_term_w, last_term_h, life_buffer,
                           screen, term_w, term_h, pc, exit_code, cause, tty,
                           hist>>
       [] e.ctl = "update" ->
            Refresh(after_input(e), 0, IF e.life # 0 THEN -1 ELSE life_buffer,
                    FALSE, e.life # 0,
                    IF is_navigation(input) THEN "nav" ELSE "unbound", 0)

Input ==
  /\ pc = "loop"
  /\ \E input \in Inputs : InputOf(input)
  /\ UNCHANGED <<reverse_byte, fd, fd_size, env, argv>>

\* the causes with which a turn of the loop can end in update()'s ERROR: after
\* an input that reaches update(), or after a generation of the armed automaton,
\* which changes nothing a system call of update() depends on
loop_errors ==
  UNION {update_errors(g) :
           g \in {after_input(key_effect(input, G, life)) :
                    input \in {i \in Inputs : key_effect(i, G, life).ctl = "update"}}}
  \cup (IF life # 0 THEN update_errors(G) ELSE {})

\* one turn of the loop, with input or an armed automaton, in which a system
\* call of update() fails (the size query, realloc, lseek or read): ERROR
UpdateError ==
  /\ pc = "loop"
  /\ \E why \in loop_errors, f \in Failures :
       Exit("update", EXIT_FAILURE, why, term_reset(tty, f).tty, <<>>,
            tty # Cooked, TRUE)
  /\ oob' = FALSE
  /\ UNCHANGED <<reverse_byte, fd, fd_size, env, argv>>

\* SIGINT while run() loops: run_sigint_handler, which calls term_reset() and
\* exit(0)
SigInt ==
  /\ pc = "loop"
  /\ Leave("sigint", "sigint")
  /\ UNCHANGED <<reverse_byte, fd, fd_size, env, argv>>

\* the terminal is resized
Resize ==
  /\ pc = "loop"
  /\ \E sz \in TermSizes :
       /\ sz # <<ws_col, ws_row>>
       /\ ws_col' = sz[1] /\ ws_row' = sz[2]
  /\ oob' = FALSE
  /\ UNCHANGED <<globals, file, ctl, term_w, term_h, screen, hist>>

\* main() has opened a file of fd_size bytes and is about to call run()
Init ==
  /\ \E c \in Configs :
       /\ reverse_byte = c.rb /\ buffer_width = c.bw
       /\ fd_size = c.size /\ offset = c.off
       /\ file = [i \in 1..c.size |-> FileByte(i)]
  /\ fd = 3
  /\ buffer = <<>> /\ buffer_size = 0 /\ buffer_offset = -1
  /\ last_term_w = 0 /\ last_term_h = 0 /\ col_offset = 0
  /\ life = 0 /\ life_buffer = -1
  /\ \E sz \in TermSizes : ws_col = sz[1] /\ ws_row = sz[2]
  /\ term_w = 0 /\ term_h = 0 /\ screen = <<>>
  /\ tty = Cooked
  /\ pc = "run" /\ exit_code = -1 /\ cause = "" /\ argv = <<>>
  /\ oob = FALSE
  /\ hist = NoFetch

Next == RunStart \/ Tick \/ InputError \/ Input \/ UpdateError \/ SigInt \/ Resize

Spec == Init /\ [][Next]_vars

(***************************************************************************)
(* Properties of the viewport under Spec.                                  *)
(***************************************************************************)
\* update() has returned and run() is back in its loop
Refreshed == pc = "loop" /\ hist.op = "update"

\* C1: after every update() the offset lies in [0, fd_size - buffer_size] and
\* col_offset in [0, buffer_width - 2*term_w].  The upper bound of col_offset
\* is read as at least 0, as the lower bound asks (a buffer narrower than the
\* terminal pins col_offset to 0).
C1_Clamp ==
  Refreshed =>
    /\ 0 <= offset /\ offset <= fd_size - buffer_size
    /\ 0 <= col_offset /\ col_offset <= Max(0, buffer_width - 2 * term_w)

\* C1 for the calls of update() that fetch
C1_ClampOnFetch ==
  (Refreshed /\ hist.fetched) =>
    /\ 0 <= offset /\ offset <= fd_size - buffer_size
    /\ 0 <= col_offset /\ col_offset <= Max(0, buffer_width - 2 * term_w)

\* C7 as stated: an update() with the terminal size and the offset of the
\* previous one does not fetch, and an update() fetches only if the terminal
\* size differs from the recorded one or the offset from that of the last fetch
C7_Idempotence ==
  Refreshed =>
    /\ hist.same => ~hist.fetched
    /\ hist.fetched => hist.changed

\* C7, amended: the same, unless the automaton was disarmed since the last
\* fetch (which invalidates buffer_offset)
C7_IdempotenceUnlessDisarmed ==
  Refreshed =>
    /\ (hist.same /\ ~hist.disarmed) => ~hist.fetched
    /\ hist.fetched => (hist.changed \/ hist.disarmed)

\* a second update() on a filled buffer with nothing changed, which did not fetch
C7_Witness ==
  /\ Refreshed /\ hist.same /\ ~hist.disarmed /\ ~hist.fetched
  /\ buffer_size > 0 /\ buffer_offset = offset /\ hist.fetch_off = offset

\* C11: once term_setup() has changed a setting of stdin, the process does not
\* end without term_reset() having been called
C11_Restore ==
  (pc = "exited" /\ hist.setup) => hist.reset

\* C11 on the ends run() reaches through break, SIGINT or update()'s ERROR
C11_RestoreOnOrderlyEnds ==
  (pc = "exited" /\ hist.op \in {"key", "input_error", "sigint", "update"}) =>
    (hist.setup /\ hist.reset)

\* the bytes of the file at [offset, offset + buffer_size), -1 where there is none
Window == [i \in 1..buffer_size |-> IF offset + i \in 1..Len(file) THEN file[offset + i] ELSE -1]

\* C12: the update() after a navigation key pressed while the automaton was
\* armed is called with the automaton disarmed and fetches, so that the buffer
\* it draws is the file's bytes at the offset
C12_DisarmRefetch ==
  (Refreshed /\ hist.key = "nav" /\ hist.armed) =>
    /\ hist.life = 0 /\ life_buffer = -1
    /\ hist.fetched
    /\ buffer = Window

\* C12 without the fetch: the key disarms the automaton and frees its block
C12_Disarms ==
  (Refreshed /\ hist.key = "nav" /\ hist.armed) => (hist.life = 0 /\ life_buffer = -1)

\* C13: an update() called while the automaton is armed does not fetch: it
\* neither reallocates the buffer nor seeks nor reads the file into it
C13_SoleWriter ==
  (Refreshed /\ hist.life # 0) => ~hist.fetched

\* C13 for a terminal that kept its size since the previous update()
C13_SoleWriterSameSize ==
  (Refreshed /\ hist.life # 0 /\ hist.same) => ~hist.fetched

\* the inputs that match no command of run()
Unbound ==
  {i \in Inputs : /\ ~is_navigation(i)
                  /\ ~(Len(i) = 1 /\ i[1] \in {ESC, 113, 81, 105, 73, 114, 82})}

\* C14: a turn of the loop on input that matches no command leaves offset,
\* col_offset, the buffer and life as they were
C14_Ignored ==
  [][\A input \in Unbound :
       (pc = "loop" /\ hist'.key = "unbound" /\ InputOf(input)) =>
         /\ offset' = offset /\ col_offset' = col_offset
         /\ buffer' = buffer /\ life' = life]_vars

\* C14 while the automaton is not armed and the terminal has the size the
\* last update() recorded
C14_IgnoredBrowsing ==
  [][\A input \in Unbound :
       (/\ pc = "loop" /\ hist'.key = "unbound" /\ InputOf(input)
        /\ life = 0 /\ ws_col = last_term_w /\ ws_row = last_term_h) =>
         /\ offset' = offset /\ col_offset' = col_offset
         /\ buffer' = buffer /\ life' = life]_vars

\* the bytes that term_h rows of characters of buffer_width bits take, rounded up
WantedBytes == (term_h * 3 * buffer_width + 7) \div 8

\* C15: after an update() that fetched, buffer_size is the bytes the terminal's
\* rows take, at most fd_size - offset and at most fd_size, and the buffer holds
\* exactly the buffer_size bytes of the file at offset
C15_WindowSize ==
  (Refreshed /\ hist.fetched) =>
    /\ buffer_size = Min(WantedBytes, Min(fd_size - offset, fd_size))
    /\ Len(buffer) = buffer_size
    /\ offset >= 0 /\ offset + buffer_size <= Len(file)
    /\ buffer = Window

\* C15's case: a fetch of a window that the size of the file caps
C15_Witness ==
  /\ Refreshed /\ hist.fetched
  /\ buffer_size > 0 /\ buffer_size < WantedBytes
  /\ buffer = Window

\* the frame update() draws of the globals as they are
Frame == redraw(reverse_byte, buffer_width, buffer_size, buffer, col_offset, term_w, term_h)

\* the commands and generations applied in the turn of the loop that ended in
\* the last update()
Mutations == (IF hist.key = "nav" THEN 1 ELSE 0) + hist.steps

\* C16: the turn of the loop that ends in an update() has applied at most one
\* navigation command or one generation of the automaton, and the frame on the
\* screen is the one of the buffer as that turn left it
C16_Ordering ==
  Refreshed => (Mutations <= 1 /\ screen = Frame)

\* C16's case: the frame after a generation that changed the buffer
C16_Witness ==
  /\ Refreshed /\ hist.steps = 1 /\ ~hist.fetched
  /\ \E i \in 1..buffer_size : buffer[i] # Window[i]
  /\ screen = Frame

\* C17: once the first update() has returned, buffer_width is a multiple of 8
\* and no step changes it
C17_WidthFixed ==
  /\ [](pc = "loop" => buffer_width % 8 = 0)
  /\ [][(pc = "loop" /\ pc' = "loop") => buffer_width' = buffer_width]_vars

\* C17 for a width that the first update() left other than 0
C17_WidthFixedOnceSet ==
  /\ [](pc = "loop" => buffer_width % 8 = 0)
  /\ [][(pc = "loop" /\ pc' = "loop" /\ buffer_width # 0) =>
          buffer_width' = buffer_width]_vars

\* C18: whenever the loop can call step_life(), life_buffer is either not yet
\* allocated (step_life() allocates buffer_size bytes) or a block of
\* buffer_size bytes
C18_ScratchShape ==
  (pc = "loop" /\ life # 0 /\ life_buffer # -1) => life_buffer = buffer_size

\* C18 for the first generation after 'r': life_buffer is not allocated yet
C18_FreshScratch ==
  (pc = "loop" /\ life # 0 /\ hist.life = 0) => life_buffer = -1

(***************************************************************************)
(* SpecRender: a file of zeros on an 80x24 terminal, shown, then shown     *)
(* again after setbit calls on the buffer.                                 *)
(***************************************************************************)
\* the file's size in bytes, the width given with -w, the terminal's size
Scene == [size |-> 24, width |-> 64, cols |-> 80, rows |-> 24]
\* the six bits of the first character cell, in the order of the index's bits
CellBits == << <<0, 0>>, <<1, 0>>, <<0, 1>>, <<1, 1>>, <<0, 2>>, <<1, 2>> >>
NoShow == [op |-> "none", x |-> 0, y |-> 0, bits |-> {}, screen |-> <<>>]

InitRender ==
  /\ reverse_byte \in {0, 1}
  /\ fd = 3 /\ offset = 0 /\ fd_size = Scene.size
  /\ file = Zeros(Scene.size)
  /\ buffer_width = Scene.width
  /\ buffer = <<>> /\ buffer_size = 0 /\ buffer_offset = -1
  /\ last_term_w = 0 /\ last_term_h = 0 /\ col_offset = 0
  /\ life = 0 /\ life_buffer = -1
  /\ ws_col = Scene.cols /\ ws_row = Scene.rows
  /\ term_w = 0 /\ term_h = 0 /\ screen = <<>>
  /\ tty = [nonblock |-> TRUE, raw |-> TRUE]
  /\ pc = "render" /\ exit_code = -1 /\ cause = "" /\ argv = <<>>
  /\ oob = FALSE
  /\ hist = NoShow

\* update() on globals g, no system call failing; h describes the step
Show(g, to, h) ==
  \E r \in {update(g, ws_col, ws_row, "ok")} :
    /\ r.ok
    /\ SetG(r.g)
    /\ screen' = r.screen /\ term_w' = ws_col /\ term_h' = ws_row
    /\ pc' = to /\ hist' = h
    /\ UNCHANGED <<reverse_byte, fd, fd_size, life, life_buffer, env, exit_code,
                   cause, argv, tty>>

\* the first update(): the window is fetched and drawn
Open ==
  /\ pc = "render"
  /\ Show(G, "shown", [NoShow EXCEPT !.op = "open"])
  /\ oob' = FALSE

\* setbit(buffer, x, y) on the window shown, and update() again
Poke ==
  /\ pc = "shown"
  /\ \E x \in 0..(buffer_width - 1), y \in 0..2 :
       \E b \in {setbit(buffer, x, y)} :
         /\ Show([G EXCEPT !.buffer = b.buf], "redrawn",
                 [op |-> "poke", x |-> x, y |-> y, bits |-> {<<x, y>>},
                  screen |-> screen])
         /\ oob' = b.oob

\* setbit on the bits todo[k], todo[k+1], ... of the first cell
RECURSIVE paint(_, _, _)
paint(buf, todo, k) ==
  IF k > Len(CellBits) THEN buf
  ELSE paint(IF k \in todo THEN setbit(buf, CellBits[k][1], CellBits[k][2]).buf ELSE buf,
             todo, k + 1)

\* setbit on any of the six bits of the first cell, and update() again
Paint ==
  /\ pc = "shown"
  /\ \E todo \in SUBSET (1..Len(CellBits)) :
       Show([G EXCEPT !.buffer = paint(buffer, todo, 1)], "redrawn",
            [op |-> "paint", x |-> 0, y |-> 0, bits |-> {CellBits[k] : k \in todo},
             screen |-> screen])
  /\ oob' = FALSE

NextRender == Open \/ Poke \/ Paint

SpecRender == InitRender /\ [][NextRender]_vars

\* the character cells update() draws: rows 1..term_h, columns 1..disp_w
Cells == {<<cy, cx>> : cy \in 1..Len(screen), cx \in 1..Len(screen[1])}
\* the cells whose glyph differs from the one shown before
ChangedCells == {c \in Cells : screen[c[1]][c[2]] # hist.screen[c[1]][c[2]]}
LeftColumn == {<<0, 0>>, <<0, 1>>, <<0, 2>>}
RightColumn == {<<1, 0>>, <<1, 1>>, <<1, 2>>}
\* the codepoints U+1FB00..U+1FB3B of the sextants
Sextants == 129792..129851

\* C8: entry 0 of the glyph table is the space, entry 63 the full block, 21
\* and 42 the right and the left half block, outside the sextants' range, and
\* the 64 entries differ from one another; a first cell with no bit, every bit,
\* its right column or its left column set is drawn as those glyphs.
C8_GlyphTable ==
  /\ sextant_chars[0 + 1] = 32
  /\ sextant_chars[63 + 1] = 9608
  /\ sextant_chars[21 + 1] = 9616 /\ sextant_chars[21 + 1] \notin Sextants
  /\ sextant_chars[42 + 1] = 9612 /\ sextant_chars[42 + 1] \notin Sextants
  /\ \A i, j \in 1..64 : i # j => sextant_chars[i] # sextant_chars[j]
  /\ hist.op = "paint" =>
       /\ hist.bits = {} => screen[1][1] = sextant_chars[0 + 1]
       /\ hist.bits = RightColumn => screen[1][1] = sextant_chars[21 + 1]
       /\ hist.bits = LeftColumn => screen[1][1] = sextant_chars[42 + 1]
       /\ hist.bits = LeftColumn \cup RightColumn => screen[1][1] = sextant_chars[63 + 1]

\* the right column of the first cell was set and drawn as the right half block
C8_Witness ==
  /\ pc = "redrawn" /\ hist.op = "paint" /\ hist.bits = RightColumn
  /\ screen[1][1] = 9616

\* C9 as stated: the file of zeros is drawn as blanks only; after
\* setbit(buffer, 0, 0) and a redraw exactly the first cell of the first row
\* has changed, to the glyph of index 32 (MSB first) or 1 (LSB first)
C9_EndToEnd ==
  /\ pc = "shown" =>
       /\ Len(screen) = Scene.rows
       /\ \A c \in Cells : screen[c[1]][c[2]] = sextant_chars[0 + 1]
  /\ (pc = "redrawn" /\ hist.op = "poke" /\ hist.x = 0 /\ hist.y = 0) =>
       /\ ChangedCells = {<<1, 1>>}
       /\ screen[1][1] = sextant_chars[(IF reverse_byte = 0 THEN 32 ELSE 1) + 1]

\* C9, amended: the same, the glyph being that of index 32 in both bit orders
C9_EndToEndTopLeft ==
  /\ pc = "shown" =>
       /\ Len(screen) = Scene.rows
       /\ \A c \in Cells : screen[c[1]][c[2]] = sextant_chars[0 + 1]
  /\ (pc = "redrawn" /\ hist.op = "poke" /\ hist.x = 0 /\ hist.y = 0) =>
       /\ ChangedCells = {<<1, 1>>}
       /\ screen[1][1] = sextant_chars[32 + 1]

\* LSB first, the first bit set and drawn
C9_Witness ==
  /\ pc = "redrawn" /\ hist.op = "poke" /\ hist.x = 0 /\ hist.y = 0
  /\ reverse_byte = 1 /\ buffer[1] = 1
  /\ screen[1][1] = sextant_chars[32 + 1]

(***************************************************************************)
(* SpecMain: main() from its first argument to the end of the process,     *)
(* through stream() or run(), on a terminal that keeps its size.           *)
(***************************************************************************)
\* command lines of up to MaxArgs arguments
MaxArgs == 2
\* errno after strtoul's overflow
ERANGE == 34
\* Arguments are strings, as sequences of character codes: -h, -r, -w8, -w12,
\* -wx, -w9999999, -o2, -o-1, -o9999999, -d5, -d9999999, and the paths f (a
\* file of MaxFile bytes), p (a pipe, which cannot seek) and n (no such file)
Args ==
  {<<45, 104>>, <<45, 114>>,
   <<45, 119, 56>>, <<45, 119, 49, 50>>, <<45, 119, 120>>,
   <<45, 119, 57, 57, 57, 57, 57, 57, 57>>,
   <<45, 111, 50>>, <<45, 111, 45, 49>>, <<45, 111, 57, 57, 57, 57, 57, 57, 57>>,
   <<45, 100, 53>>, <<45, 100, 57, 57, 57, 57, 57, 57, 57>>,
   <<102>>, <<112>>, <<110>>}
\* the bytes every read of stdin delivers in stream mode
StreamBytes == {0, 165}
\* the terminal of SpecMain
MainTerm == <<5, 1>>

\* the decimal digits of s from position k on, acc being the value so far:
\* the value, and whether it left the range of unsigned long
RECURSIVE digits(_, _, _, _)
digits(s, k, acc, over) ==
  IF k > Len(s) \/ s[k] \notin 48..57 THEN [value |-> acc, over |-> over]
  ELSE LET v == acc * 10 + (s[k] - 48)
       IN IF over \/ v >= Mod THEN digits(s, k + 1, 0, TRUE)
          ELSE digits(s, k + 1, v, FALSE)

\* strtoul(s, 0, 0) on a string with no prefix of base 8 or 16 and no leading
\* blanks: the value, and errno after the call
strtoul(s) ==
  LET neg == Len(s) >= 1 /\ s[1] = 45
      r == digits(s, IF neg THEN 2 ELSE 1, 0, FALSE)
  IN IF r.over THEN [value |-> Mod - 1, errno |-> ERANGE]
     ELSE [value |-> IF neg THEN U(0 - r.value) ELSE r.value, errno |-> 0]

\* !strncmp(a, "-c", 2) for the character c
is_flag(a, c) == Len(a) >= 2 /\ a[1] = 45 /\ a[2] = c
\* what follows the two characters of a flag
flag_value(a) == strtoul(SubSeq(a, 3, Len(a)))

\* open(path, O_RDONLY) and lseek(fd, 0, SEEK_END): the descriptor (-1: open
\* failed) and the size (-1: the seek failed)
open_file(path) ==
  IF path = <<102>> THEN [fd |-> 3, size |-> Len(file)]
  ELSE IF path = <<112>> THEN [fd |-> 3, size |-> -1]
  ELSE [fd |-> -1, size |-> 0]

InitMain ==
  /\ reverse_byte = 0 /\ fd = -1 /\ offset = 0 /\ fd_size = 0
  /\ file = [i \in 1..MaxFile |-> FileByte(i)]
  /\ buffer = <<>> /\ buffer_size = 0 /\ buffer_offset = -1 /\ buffer_width = 0
  /\ last_term_w = 0 /\ last_term_h = 0 /\ col_offset = 0
  /\ life = 0 /\ life_buffer = -1
  /\ ws_col = MainTerm[1] /\ ws_row = MainTerm[2]
  /\ term_w = 0 /\ term_h = 0 /\ screen = <<>>
  /\ tty = Cooked
  /\ pc = "main" /\ exit_code = -1 /\ cause = ""
  /\ argv \in UNION {[1..n -> Args] : n \in 0..MaxArgs}
  /\ oob = FALSE
  /\ hist = NoFetch

\* usage(): the help text and exit(0)
usage(why) ==
  /\ Exit("arg", 0, why, tty, screen, FALSE, FALSE)
  /\ UNCHANGED <<reverse_byte, fd, fd_size>>

\* main() goes on to the next argument with the globals it has set
next_arg(rb, bw, off, f, size) ==
  /\ reverse_byte' = rb /\ buffer_width' = bw /\ offset' = off
  /\ fd' = f /\ fd_size' = size
  /\ UNCHANGED <<buffer, buffer_size, buffer_offset, last_term_w, last_term_h,
                 col_offset, life, life_buffer, term_w, term_h, screen, tty, pc,
                 exit_code, cause, hist>>

\* one turn of main()'s loop over the arguments (-d sets the delay of the
\* sleeps, which the model does not keep)
Arg ==
  /\ pc = "main" /\ argv # <<>>
  /\ argv' = Tail(argv)
  /\ LET a == Head(argv)
         n == flag_value(a)
         o == open_file(a)
     IN IF a = <<45, 104>> THEN usage("help")
        ELSE IF a = <<45, 114>> THEN next_arg(1, buffer_width, offset, fd, fd_size)
        ELSE IF is_flag(a, 119)
        THEN IF n.errno # 0 THEN usage("number")
             ELSE IF U(n.value) % 8 # 0 THEN usage("width")
             ELSE next_arg(reverse_byte, U(n.value), offset, fd, fd_size)
        ELSE IF is_flag(a, 111)
        THEN IF n.errno # 0 THEN usage("number")
             ELSE IF S(n.value) < 0 THEN usage("negative")
             ELSE next_arg(reverse_byte, buffer_width, S(n.value), fd, fd_size)
        ELSE IF is_flag(a, 100)
        THEN IF n.errno # 0 THEN usage("number")
             ELSE next_arg(reverse_byte, buffer_width, offset, fd, fd_size)
        ELSE IF fd < 0
        THEN IF o.fd < 0 THEN usage("path")
             ELSE IF o.size < 0 THEN usage("size")
             ELSE next_arg(reverse_byte, buffer_width, offset, o.fd, o.size)
        ELSE usage("extra")
  /\ oob' = FALSE
  /\ UNCHANGED env

\* the arguments are done: stream() without a file, run() with one
Dispatch ==
  /\ pc = "main" /\ argv = <<>>
  /\ pc' = IF fd < 0 THEN "stream" ELSE "run"
  /\ UNCHANGED <<globals, env, exit_code, cause, argv, tty, term_w, term_h, screen,
                 oob, hist>>

\* buffer_size in stream(): three rows of buffer_width bits
stream_size(bw) == (bw \div 8) * 3

\* the line stream() prints: buffer_width/2 glyphs
stream_line(rb, bw, bs, buf) ==
  [cx \in 1..(bw \div 2) |->
     sextant_chars[glyph_index(rb, bw, bs, buf, 2 * (cx - 1), 0) + 1]]

\* one turn of stream()'s loop: the size query, realloc, a full read, a line
StreamLine ==
  /\ pc = "stream"
  /\ \E b \in StreamBytes :
       LET bw == derive_width(buffer_width, ws_col)
           bs == stream_size(bw)
           buf == [i \in 1..bs |-> b]
       IN /\ buffer_width' = bw /\ buffer_size' = bs /\ buffer' = buf
          /\ screen' = <<stream_line(reverse_byte, bw, bs, buf)>>
  /\ term_w' = ws_col /\ term_h' = ws_row
  /\ oob' = FALSE
  /\ UNCHANGED <<reverse_byte, fd, offset, fd_size, buffer_offset, last_term_w,
                 last_term_h, col_offset, life, life_buffer, env, ctl, hist>>

\* a turn of stream()'s loop in which read() delivers less than buffer_size
\* bytes (the end of the input) or fails: stream() returns, main() returns 0
StreamEnd ==
  /\ pc = "stream"
  /\ \E why \in IF stream_size(derive_width(buffer_width, ws_col)) > 0
                 THEN {"eof", "input"} ELSE {"input"} :
       Exit("stream", 0, why, tty, screen, FALSE, FALSE)
  /\ oob' = FALSE
  /\ UNCHANGED <<reverse_byte, fd, fd_size, env, argv>>

\* a turn of stream()'s loop in which the size query fails (ERROR: term_reset()
\* and exit(-1)) or realloc does (exit(-1))
StreamError ==
  /\ pc = "stream"
  /\ \/ \E f \in Failures :
          Exit("stream", EXIT_FAILURE, "io", term_reset(tty, f).tty, <<>>, FALSE, TRUE)
     \/ Exit("stream", EXIT_FAILURE, "alloc", tty, screen, FALSE, FALSE)
  /\ oob' = FALSE
  /\ UNCHANGED <<reverse_byte, fd, fd_size, env, argv>>

\* SIGINT while stream() loops: stream_sigint_handler calls exit(0)
StreamSigInt ==
  /\ pc = "stream"
  /\ Exit("sigint", 0, "sigint", tty, screen, FALSE, FALSE)
  /\ oob' = FALSE
  /\ UNCHANGED <<reverse_byte, fd, fd_size, env, argv>>

NextMain ==
  \/ Arg \/ Dispatch
  \/ StreamLine \/ StreamEnd \/ StreamError \/ StreamSigInt
  \/ RunStart \/ Tick \/ InputError \/ Input \/ UpdateError \/ SigInt

SpecMain == InitMain /\ [][NextMain]_vars

\* the causes of an exit that are argument errors, I/O errors on the file, the
\* terminal or stdin, and the normal ends
ArgErrors == {"number", "width", "negative", "path", "extra"}
IoErrors == {"io", "tty", "size", "input"}
NormalEnds == {"quit", "eof"}

\* C10: the process exits with 0 on a normal end (a quit key, the end of the
\* stream) and with another code on every I/O error, allocation error and
\* argument error
C10_ExitCodes ==
  pc = "exited" =>
    /\ cause \in NormalEnds => exit_code = 0
    /\ cause \in ArgErrors \cup IoErrors \cup {"alloc"} => exit_code # 0

\* C10 without the argument errors and the failed read of stdin
C10_ExitCodesOfRun ==
  pc = "exited" =>
    /\ cause \in NormalEnds => exit_code = 0
    /\ cause \in {"io", "tty", "alloc"} => exit_code # 0



\* the 6-bit value with bit 0 and bit 5, 1 and 4, 2 and 3 of i exchanged
Reverse6(i) ==
  Bit(i, 0) * 32 + Bit(i, 1) * 16 + Bit(i, 2) * 8 + Bit(i, 3) * 4
  + Bit(i, 4) * 2 + Bit(i, 5)

\* the codepoint Unicode gives the sextant of value v in 1..62 (bit 0 top-left,
\* 1 top-right, 2 middle-left, 3 middle-right, 4 bottom-left, 5 bottom-right):
\* U+1FB00.. in the order of v, without 21 and 42, which are the left half
\* block U+258C and the right half block U+2590
UnicodeSextant(v) ==
  CASE v = 21 -> 9612
    [] v = 42 -> 9616
    [] OTHER -> 129792 + v - 1 - (IF v > 21 THEN 1 ELSE 0) - (IF v > 42 THEN 1 ELSE 0)

\* the value of the sextant whose set bits are the cells <<x, y>> of bits
SextantValue(bits) ==
  LET w(k) == IF CellBits[k] \in bits THEN 2 ^ (CellBits[k][1] + 2 * CellBits[k][2]) ELSE 0
  IN w(1) + w(2) + w(3) + w(4) + w(5) + w(6)

\* C19: entry i of the glyph table, for i in 1..62 other than 21 and 42, is
\* 0x1FB00 + v - 1 - [v > 21] - [v > 42] with v the bit-reversal of i; entry 21
\* is U+2590 and entry 42 is U+258C; and a first cell painted with some but not
\* all of its six bits is drawn as the Unicode sextant of those bits
C19_SextantNumbering ==
  /\ \A i \in (1..62) \ {21, 42} :
       LET v == Reverse6(i)
       IN sextant_chars[i + 1] =
            129792 + v - 1 - (IF v > 21 THEN 1 ELSE 0) - (IF v > 42 THEN 1 ELSE 0)
  /\ sextant_chars[21 + 1] = 9616
  /\ sextant_chars[42 + 1] = 9612
  /\ (pc = "redrawn" /\ hist.op = "paint" /\ SextantValue(hist.bits) \in 1..62) =>
       screen[1][1] = UnicodeSextant(SextantValue(hist.bits))

\* the top-right and bottom-left bits of the first cell were set and drawn as
\* U+1FB11, the sextant of value 2 + 16
C19_Witness ==
  /\ pc = "redrawn" /\ hist.op = "paint" /\ hist.bits = {<<1, 0>>, <<0, 2>>}
  /\ screen[1][1] = 129809

====
